---- MODULE Spec2Model ----
(***************************************************************************)
(* Connection-quality and alerting engine of web-automation-gen.           *)
(*                                                                         *)
(*  - the session service (src/src/services/sessionService.ts): the        *)
(*    per-session event log, the derived connection metrics, the alert     *)
(*    files and the historical metrics files;                              *)
(*  - the client alert engine (src/unnamed/part_004);                      *)
(*  - the client reconnection machine (src/public/js/app.js).              *)
(*                                                                         *)
(* Numbers that JavaScript computes in floating point are kept as exact    *)
(* rationals (numerator and denominator) and rounded as Math.round does.   *)
(***************************************************************************)
EXTENDS Integers, Sequences, FiniteSets, TLC

VARIABLES
    now,            \* the wall clock, in ms (new Date(), Date.now())
    sessions,       \* metadata/<id>.json : session id -> stored session
    alerts,         \* alerts/<uuid>.json : sequence of stored alerts, id = index
    history,        \* history/metrics_<period>.json : period -> stored metrics
    calls,          \* addConnectionEvent / completeSession calls between their read and their write
    nextCall,       \* number of the next service call
    returned,       \* numbers of the calls that returned a session
    dismissed,      \* ids of the alerts for which the dismiss endpoint answered 200
    lastResult,     \* what the last finished service call returned
    activeAlerts,   \* client: Map alertId -> alert
    notifications,  \* client: what notifyAlertSubscribers sent during the last operation
    userThresholds, \* client: the thresholds in force
    evalLog,        \* client: the last operation of the alert engine
    isReconnecting, \* client: the reentrancy flag
    reconnectAttempts,
    errorCount,
    lastKnownStatus,
    pollingInterval,     \* client: TRUE while the setInterval timer is set
    currentRecordingPid, \* client: TRUE while currentRecordingPid = pid
    savedProcess,        \* client: TRUE while localStorage holds currentRecordingProcess
    tasks,               \* client: for each await, how many async functions are suspended at it
    polls,               \* client: the status checks of the polling timer that are in flight,
                         \* by the number of timer ticks since they were started
    userActions,         \* client: browser events and clicks so far
    eventLog,            \* client: how many events of each kind were handed to
                         \* recordConnectionEvent since the attempt counter was last reset
    scoring,             \* calculateQualityScore(session): the session passed and the score returned
    childProcess,        \* the codegen process started by exec: its state and exit code
    processes,           \* ProcessManager.processes : process id -> ProcessInfo
    listeners,           \* the 'exit' listeners registered on the child process
    processOf,           \* the processId field of the stored sessions
    statusAnswer,        \* the last response of GET /api/recording/status/:pid
    requests,            \* requests handled by the recording controller so far
    periodCall,          \* updateHistoricalMetrics: the date of a run and its period starts
    trendCall            \* calculateTrendDirection(sessions, property): the list and the result

serverVars == <<sessions, alerts, history, calls, nextCall, returned, dismissed, lastResult>>
alertVars  == <<activeAlerts, notifications, userThresholds, evalLog>>
reconVars  == <<isReconnecting, reconnectAttempts, errorCount, lastKnownStatus,
                pollingInterval, currentRecordingPid, savedProcess, tasks, polls,
                userActions, eventLog>>
controllerVars == <<childProcess, processes, listeners, processOf, statusAnswer, requests>>
pureVars   == <<scoring, periodCall, trendCall>>
callVars   == <<pureVars, controllerVars>>
vars == <<now, serverVars, alertVars, reconVars, callVars>>

-----------------------------------------------------------------------------
(* Bounds of the model                                                     *)

MaxCalls == 2
MaxTime == 1
MaxInFlight == 1
MaxUserActions == 2
MaxAttempts == 4
MaxDisconnections == 7
MaxDuration == 2
MaxRequests == 3
MaxDay == 37
MaxSessions == 6

SessionIds == {"s1", "s2"}
IdOrder == [s1 |-> 1, s2 |-> 2]
EventTypes == {"connected", "disconnected", "warning", "reconnecting", "reconnected", "failed"}
Periods == <<"day", "week", "month", "all">>

\* An optional field that is absent, a NaN, and the null JSON.stringify writes for a NaN.
Undefined == -1
NaN == -2
Null == -3

Durations == {Undefined, 20000}
Latencies == {Undefined, 300}

Min(a, b) == IF a <= b THEN a ELSE b
Max(a, b) == IF a >= b THEN a ELSE b

\* Math.round(n / d) for d > 0: the nearest integer, halves upwards.
Round(n, d) == (2 * n + d) \div (2 * d)

RECURSIVE SumSeq(_)
SumSeq(s) == IF s = <<>> THEN 0 ELSE Head(s) + SumSeq(Tail(s))

-----------------------------------------------------------------------------
(* sessionService.ts                                                       *)

\* saveSession: the metrics and the first event of a new session.
NewSession(t) ==
    [ createdAt |-> t,
      updatedAt |-> t,
      metrics |-> [ disconnectionCount |-> 0,
                    totalDisconnectionTime |-> 0,
                    reconnectionCount |-> 0,
                    failedReconnectionCount |-> Undefined,
                    completedNormally |-> FALSE,
                    qualityScore |-> Undefined,
                    latencySum |-> Undefined,
                    latencyCount |-> 0,
                    maxLatency |-> Undefined,
                    stabilityPercentage |-> Undefined,
                    rateNum |-> Undefined,
                    rateDen |-> 1 ],
      events |-> << [ call |-> 0, type |-> "connected", duration |-> Undefined,
                      latency |-> Undefined, timestamp |-> t ] >> ]

OrZero(x) == IF x < 0 THEN 0 ELSE x

SessionDuration(s) == s.updatedAt - s.createdAt

\* calculateQualityScore. The penalties are summed as whole parts plus fractions over
\* the common denominator dur * rateDen * (100 * latencyCount).
CalculateQualityScore(s) ==
    LET m == s.metrics
        dur == SessionDuration(s)
        A == Min(m.disconnectionCount * 5, 30)
        \* Math.min(tdt / dur * 100, 100) * 0.4, capped at 40; x/0 is Infinity, 0/0 is NaN
        d1 == IF dur = 0 THEN 1 ELSE dur
        Bn == IF dur = 0 THEN 40 ELSE Min(40 * m.totalDisconnectionTime, 40 * dur)
        hasC == m.rateNum # Undefined /\ m.reconnectionCount > 0
        d2 == IF hasC THEN m.rateDen ELSE 1
        Cn == IF hasC THEN 20 * (m.rateDen - m.rateNum) ELSE 0
        hasD == m.latencySum # Undefined
        d3 == IF hasD THEN 100 * m.latencyCount ELSE 1
        Dn == IF hasD THEN Min(m.latencySum, 1000 * m.latencyCount) ELSE 0
        whole == (Bn \div d1) + (Cn \div d2) + (Dn \div d3)
        fracN == (Bn % d1) * d2 * d3 + (Cn % d2) * d1 * d3 + (Dn % d3) * d1 * d2
        Q == d1 * d2 * d3
        \* Math.round(100 - A - whole - fracN/Q)
        rounded == (100 - A - whole) + ((Q - 2 * fracN) \div (2 * Q))
    IN  IF dur = 0 /\ m.totalDisconnectionTime = 0
          THEN NaN
          ELSE Max(0, Min(100, rounded))

\* updateStabilityMetrics: Math.round(stableTime / sessionDuration * 100).
StabilityPercentage(s) ==
    LET dur == SessionDuration(s)
        stableTime == Max(0, dur - s.metrics.totalDisconnectionTime)
    IN  IF dur = 0 THEN NaN ELSE Round(100 * stableTime, dur)

UpdateStabilityMetrics(s) ==
    [s EXCEPT !.metrics.stabilityPercentage = StabilityPercentage(s)]

\* reconnectionSuccessRate = reconnectionCount / totalAttempts
UpdateRate(m) ==
    [m EXCEPT !.rateNum = m.reconnectionCount,
              !.rateDen = m.reconnectionCount + OrZero(m.failedReconnectionCount)]

\* the switch on eventType of addConnectionEvent; s already holds the new event
ApplyEventType(s, type, duration) ==
    LET m == s.metrics IN
    CASE type = "disconnected" ->
           UpdateStabilityMetrics(
             [s EXCEPT !.metrics.disconnectionCount = @ + 1,
                       !.metrics.totalDisconnectionTime =
                           IF duration > 0 THEN @ + duration ELSE @])
      [] type = "reconnected" ->
           [s EXCEPT !.metrics =
               UpdateRate([m EXCEPT !.reconnectionCount = @ + 1])]
      [] type = "failed" ->
           [s EXCEPT !.metrics =
               UpdateRate([m EXCEPT !.failedReconnectionCount = OrZero(@) + 1])]
      [] type = "connected" ->
           IF Len(s.events) > 1
             THEN [s EXCEPT !.metrics =
                      UpdateRate([m EXCEPT !.reconnectionCount = @ + 1])]
             ELSE s
      [] OTHER -> s

\* the latency block of addConnectionEvent
ApplyLatency(s, latency) ==
    IF latency = Undefined THEN s
    ELSE LET with == SelectSeq(s.events, LAMBDA e : e.latency # Undefined)
             lats == [i \in 1..Len(with) |-> with[i].latency]
         IN  [s EXCEPT !.metrics.maxLatency =
                           IF latency > OrZero(@) THEN latency ELSE @,
                       !.metrics.latencySum = SumSeq(lats),
                       !.metrics.latencyCount = Len(with)]

\* addConnectionEvent from the push of the new event to the new quality score
ApplyEvent(snap, ev, t) ==
    LET pushed == [snap EXCEPT !.events = Append(@, ev), !.updatedAt = t]
        typed == ApplyEventType(pushed, ev.type, ev.duration)
        lat == ApplyLatency(typed, ev.latency)
    IN  [lat EXCEPT !.metrics.qualityScore = CalculateQualityScore(lat)]

\* JSON.stringify followed by JSON.parse: a NaN comes back as null
JsonNumber(x) == IF x = NaN THEN Null ELSE x

Stored(s) ==
    [s EXCEPT !.metrics.qualityScore = JsonNumber(@),
              !.metrics.stabilityPercentage = JsonNumber(@)]

\* One alert as checkAndGenerateAlerts builds it.
NewAlert(type, severity, sid, t) ==
    [ type |-> type, severity |-> severity, sessionId |-> sid, timestamp |-> t,
      acknowledged |-> FALSE, acknowledgedAt |-> Undefined ]

\* checkAndGenerateAlerts: the alerts one pass pushes, in order (s is the in-memory session).
GeneratedAlerts(s, sid, t) ==
    LET m == s.metrics
        q == m.qualityScore
        dur == SessionDuration(s)
        tdt == m.totalDisconnectionTime
        attempts == m.reconnectionCount + OrZero(m.failedReconnectionCount)
        quality ==
            IF q # Undefined /\ q # NaN /\ q < 60
              THEN << NewAlert("quality",
                               IF q < 40 THEN "critical" ELSE IF q < 50 THEN "warning" ELSE "info",
                               sid, t) >>
              ELSE << >>
        disconnection ==
            IF m.disconnectionCount >= 3
              THEN << NewAlert("disconnection",
                               IF m.disconnectionCount >= 5 THEN "critical" ELSE "warning",
                               sid, t) >>
              ELSE << >>
        reconnection ==
            IF m.rateNum # Undefined /\ 10 * m.rateNum < 7 * m.rateDen /\ attempts >= 3
              THEN << NewAlert("reconnection",
                               IF 2 * m.rateNum < m.rateDen THEN "critical" ELSE "warning",
                               sid, t) >>
              ELSE << >>
        \* tdt / dur * 100 > 20: Infinity when dur = 0 < tdt, NaN when both are 0
        over20 == IF dur = 0 THEN tdt > 0 ELSE 100 * tdt > 20 * dur
        over40 == IF dur = 0 THEN tdt > 0 ELSE 100 * tdt > 40 * dur
        downtime ==
            IF over20 /\ tdt > 10000
              THEN << NewAlert("downtime", IF over40 THEN "critical" ELSE "warning", sid, t) >>
              ELSE << >>
    IN  quality \o disconnection \o reconnection \o downtime

\* saveAlert, once per generated alert: one new file per alert.
SaveAlerts(store, new) == store \o new

\* values.reduce((total, value) => total + value, 0) over the sessions S, f their values
RECURSIVE SumOver(_, _)
SumOver(S, f) ==
    IF S = {} THEN 0
    ELSE LET x == CHOOSE y \in S : TRUE
         IN  f[x] + SumOver(S \ {x}, f)

\* calculateAverage, times 10: Math.round(sum / n * 10) / 10
CalculateAverage10(sum, n) == IF n = 0 THEN 0 ELSE Round(10 * sum, n)

\* now.getDay() on the day of the run (a Wednesday)
GetDay == 3

\* updateHistoricalMetrics: the start of each period. weekStart is now moved back
\* getDay() days (the time of day is kept); the run lies within one day, so the day
\* and the month start before it.
PeriodStart(p, t) ==
    IF p = "week" THEN t - GetDay * 86400000 ELSE 0

GetSessionsSince(store, start) ==
    {id \in DOMAIN store : store[id].createdAt >= start}

IsProblemSession(s) ==
    \/ s.metrics.qualityScore # Undefined /\ OrZero(s.metrics.qualityScore) < 60
    \/ s.metrics.disconnectionCount >= 3
    \/ s.metrics.rateNum # Undefined /\ 10 * s.metrics.rateNum < 7 * s.metrics.rateDen

\* Math.round(((new - old) / old) * 100 * 10) / 10, times 10
ChangePercentage10(new10, old10) == Round(1000 * (new10 - old10), old10)

TrendOf(change10) ==
    IF change10 > 50 THEN "improving"
    ELSE IF change10 < -50 THEN "declining"
    ELSE "stable"

\* updateMetricsForPeriod: the record written to metrics_<period>.json
UpdateMetricsForPeriod(p, start, newSession, store, hist, t) ==
    IF p \notin DOMAIN hist
      THEN LET q == newSession.metrics.qualityScore IN
           [ startTime |-> start, endTime |-> t,
             averageQualityScore10 |-> IF q <= 0 THEN 1000 ELSE 10 * q,
             averageDisconnectionCount10 |-> 10 * newSession.metrics.disconnectionCount,
             sessionCount |-> 1,
             problemSessionCount |-> Undefined,
             hasChange |-> FALSE, changePercentage10 |-> 0,
             trend |-> "stable" ]
      ELSE LET since == GetSessionsSince(store, start)
               scored == {id \in since : store[id].metrics.qualityScore # Undefined}
               avgQ == CalculateAverage10(SumOver(scored, [id \in scored |-> OrZero(store[id].metrics.qualityScore)]), Cardinality(scored))
               avgD == CalculateAverage10(SumOver(since, [id \in since |-> store[id].metrics.disconnectionCount]), Cardinality(since))
               old == hist[p].averageQualityScore10
               change == IF old # 0 THEN ChangePercentage10(avgQ, old) ELSE 0
           IN
           [ startTime |-> start, endTime |-> t,
             averageQualityScore10 |-> avgQ,
             averageDisconnectionCount10 |-> avgD,
             sessionCount |-> Cardinality(since),
             problemSessionCount |-> Cardinality({id \in since : IsProblemSession(store[id])}),
             hasChange |-> old # 0, changePercentage10 |-> change,
             trend |-> IF old # 0 THEN TrendOf(change) ELSE "undefined" ]

PeriodSet == {Periods[i] : i \in DOMAIN Periods}

UpdateHistoricalMetrics(newSession, store, hist, t) ==
    [p \in PeriodSet |->
        UpdateMetricsForPeriod(p, PeriodStart(p, t), newSession, store, hist, t)]

\* getSessionAlerts: the ids of the stored alerts of a session
GetSessionAlerts(sid) == {i \in DOMAIN alerts : alerts[i].sessionId = sid}

-----------------------------------------------------------------------------
(* The service's operations. addConnectionEvent and completeSession read   *)
(* the session file (await getSession), then compute and write; other      *)
(* requests run between the read and the write.                            *)

InitClock == now = 0

InitServer ==
    /\ sessions = << >>
    /\ alerts = << >>
    /\ history = << >>
    /\ calls = {}
    /\ nextCall = 1
    /\ returned = {}
    /\ dismissed = {}
    /\ lastResult = [op |-> "none", arg |-> "none", ret |-> "none"]

\* new Date() read by an operation: the clock stands still or has moved on
Clock(t) ==
    /\ t \in now..(now + 1)
    /\ t <= MaxTime
    /\ now' = t

\* uuidv4(): an id no session has; the model hands the ids out in order
NextId(store) ==
    IF DOMAIN store = SessionIds THEN "none"
    ELSE CHOOSE id \in SessionIds \ DOMAIN store :
            \A other \in SessionIds \ DOMAIN store : IdOrder[id] <= IdOrder[other]

\* saveSession(url, scriptPath, ...): a new id, a new metadata file
SaveSession(id, t) ==
    /\ id = NextId(sessions)
    /\ Clock(t)
    /\ sessions' = [x \in DOMAIN sessions \cup {id} |->
                       IF x = id THEN NewSession(t) ELSE sessions[x]]
    /\ UNCHANGED <<alerts, history, calls, nextCall, returned, dismissed,
                   lastResult, alertVars, reconVars, callVars>>

\* A variant that starts a session for an id it does not know instead of returning null.
AddConnectionEventReadUpsert(sid, type, duration, latency) ==
    /\ nextCall <= MaxCalls
    /\ nextCall' = nextCall + 1
    /\ sessions' = [x \in DOMAIN sessions \cup {sid} |->
                       IF x \in DOMAIN sessions THEN sessions[x] ELSE NewSession(now)]
    /\ calls' = calls \cup
           {[call |-> nextCall, op |-> "addConnectionEvent", sid |-> sid,
             snap |-> sessions'[sid], type |-> type, duration |-> duration,
             latency |-> latency]}
    /\ UNCHANGED <<now, alerts, history, returned, dismissed, lastResult,
                   alertVars, reconVars, callVars>>

\* addConnectionEvent up to `await getSession`: null when there is no such session
AddConnectionEventRead(sid, type, duration, latency) ==
    /\ nextCall <= MaxCalls
    /\ nextCall' = nextCall + 1
    /\ IF sid \notin DOMAIN sessions
         THEN /\ lastResult' = [op |-> "addConnectionEvent", arg |-> sid, ret |-> "null"]
              /\ UNCHANGED calls
         ELSE /\ calls' = calls \cup
                     {[call |-> nextCall, op |-> "addConnectionEvent", sid |-> sid,
                       snap |-> sessions[sid], type |-> type, duration |-> duration,
                       latency |-> latency]}
              /\ UNCHANGED lastResult
    /\ UNCHANGED <<now, sessions, alerts, history, returned, dismissed,
                   alertVars, reconVars, callVars>>

\* addConnectionEvent after the read: the event, the metrics, the alerts, the file,
\* the historical metrics, and the session returned
NewEvent(c, t) ==
    [call |-> c.call, type |-> c.type, duration |-> c.duration,
     latency |-> c.latency, timestamp |-> t]

WriteSession(store, sid, s) == [store EXCEPT ![sid] = Stored(s)]

AddConnectionEventWrite(n, t) ==
    \E c \in calls :
    /\ c.call = n
    /\ c.op = "addConnectionEvent"
    /\ Clock(t)
    /\ \E s \in {ApplyEvent(c.snap, NewEvent(c, t), t)} :
         \E store \in {WriteSession(sessions, c.sid, s)} :
            /\ alerts' = SaveAlerts(alerts, GeneratedAlerts(s, c.sid, t))
            /\ sessions' = store
            /\ history' = UpdateHistoricalMetrics(s, store, history, t)
    /\ calls' = calls \ {c}
    /\ returned' = returned \cup {c.call}
    /\ lastResult' = [op |-> c.op, arg |-> c.sid, ret |-> "session"]
    /\ UNCHANGED <<nextCall, dismissed, alertVars, reconVars, callVars>>

\* completeSession up to `await getSession`
CompleteSessionRead(sid) ==
    /\ nextCall <= MaxCalls
    /\ nextCall' = nextCall + 1
    /\ IF sid \notin DOMAIN sessions
         THEN /\ lastResult' = [op |-> "completeSession", arg |-> sid, ret |-> "null"]
              /\ UNCHANGED calls
         ELSE /\ calls' = calls \cup
                     {[call |-> nextCall, op |-> "completeSession", sid |-> sid,
                       snap |-> sessions[sid], type |-> "connected", duration |-> Undefined,
                       latency |-> Undefined]}
              /\ UNCHANGED lastResult
    /\ UNCHANGED <<now, sessions, alerts, history, returned, dismissed,
                   alertVars, reconVars, callVars>>

\* completeSession after the read: the metrics are finalized on the session as read,
\* then the completion event is pushed and updatedAt is set
CompleteSession(snap, ev, t) ==
    LET done == [snap EXCEPT !.metrics.completedNormally = TRUE]
        scored == [done EXCEPT !.metrics.qualityScore = CalculateQualityScore(done)]
        stable == UpdateStabilityMetrics(scored)
    IN  [stable EXCEPT !.events = Append(@, ev), !.updatedAt = t]

CompleteSessionWrite(n, t) ==
    \E c \in calls :
    /\ c.call = n
    /\ c.op = "completeSession"
    /\ Clock(t)
    /\ \E s \in {CompleteSession(c.snap, NewEvent(c, t), t)} :
         \E store \in {WriteSession(sessions, c.sid, s)} :
            /\ sessions' = store
            /\ history' = UpdateHistoricalMetrics(s, store, history, t)
    /\ calls' = calls \ {c}
    /\ returned' = returned \cup {c.call}
    /\ lastResult' = [op |-> c.op, arg |-> c.sid, ret |-> "session"]
    /\ UNCHANGED <<alerts, nextCall, dismissed, alertVars, reconVars, callVars>>

\* acknowledgeAlert(alertId) of the service: the alert file rewritten
Acknowledge(store, id, t) ==
    [store EXCEPT ![id].acknowledged = TRUE, ![id].acknowledgedAt = t]

ServerAcknowledgeAlert(id, t) ==
    /\ id \in DOMAIN alerts
    /\ Clock(t)
    /\ alerts' = Acknowledge(alerts, id, t)
    /\ lastResult' = [op |-> "acknowledgeAlert", arg |-> "alert", ret |-> "true"]
    /\ UNCHANGED <<sessions, history, calls, nextCall, returned, dismissed,
                   alertVars, reconVars, callVars>>

\* PUT /alerts/:alertId, the controller's dismissAlert: it calls acknowledgeAlert
DismissStored(store, id, t) == Acknowledge(store, id, t)

ServerDismissAlert(id, t) ==
    /\ id \in DOMAIN alerts
    /\ Clock(t)
    /\ alerts' = DismissStored(alerts, id, t)
    /\ dismissed' = dismissed \cup {id}
    /\ lastResult' = [op |-> "dismissAlert", arg |-> "alert", ret |-> "200"]
    /\ UNCHANGED <<sessions, history, calls, nextCall, returned,
                   alertVars, reconVars, callVars>>

\* The client parts at rest.
DEFAULT_THRESHOLDS ==
    [qualityScore |-> 60, disconnectionCount |-> 3,
     reconnectionFailRate |-> 25, downtimeThreshold |-> 30000]

InitAlerts ==
    /\ activeAlerts = << >>
    /\ notifications = << >>
    /\ userThresholds = DEFAULT_THRESHOLDS
    /\ evalLog = [op |-> "none", sessionId |-> "none", createdQuality |-> FALSE,
                  again |-> FALSE]

MAX_ERROR_COUNT == 5
MAX_RECONNECT_ATTEMPTS == 3
\* The delay of the polling timer and the timeout of checkRecordingStatus, in ms.
CONNECTION_CHECK_DELAY == 2000
StatusCheckTimeout == 5000
\* A status check is aborted before the timer has ticked more than this often since
\* its start.
MaxPollAge == StatusCheckTimeout \div CONNECTION_CHECK_DELAY
PollAges == 0..MaxPollAge

\* The awaits of the reconnection machine: the requests of the load handler up to its
\* status response, the initial status check, the requests of a reconnection attempt up
\* to the status response, the recording of its result (reconnected, process not
\* running, attempts exhausted), the cleanup request, the requests of handleProcessCrash
\* and the online handler's event. The status checks of the timer are in polls.
TaskKinds == {"load", "initial", "fetching", "reconnected", "dead", "max", "cleanup",
              "crash", "online"}

NoTasks == [k \in TaskKinds |-> 0]
NoPolls == [a \in PollAges |-> "none"]

InitRecon ==
    /\ isReconnecting = FALSE
    /\ reconnectAttempts = 0
    /\ errorCount = 0
    /\ lastKnownStatus = "null"
    /\ pollingInterval = FALSE
    /\ currentRecordingPid = FALSE
    /\ savedProcess = FALSE
    /\ tasks = NoTasks
    /\ polls = NoPolls
    /\ userActions = 0
    /\ eventLog = [k \in {"reconnecting", "reconnected", "failed", "maximum", "crashed",
                          "disconnected"} |-> 0]

\* No call of calculateQualityScore is followed.
NoScoring == [returned |-> FALSE, session |-> NewSession(0), score |-> Undefined]

\* The recording controller at rest: no child process, an empty process map.
ProcessIds == {"p1"}
NoProcess == [registered |-> FALSE, process |-> FALSE, type |-> "none"]

InitController ==
    /\ childProcess = [state |-> "none", code |-> Undefined]
    /\ processes = [pid \in ProcessIds |-> NoProcess]
    /\ listeners = [manager |-> FALSE, controller |-> {}]
    /\ processOf = [sid \in SessionIds |-> "none"]
    /\ statusAnswer = [asked |-> FALSE, status |-> "none", isRunning |-> FALSE]
    /\ requests = 0

\* No run of updateHistoricalMetrics is followed for its dates.
NoPeriodCall ==
    [returned |-> FALSE, now |-> [day |-> 0, ms |-> 0],
     starts |-> [p \in {"day", "week", "month"} |-> [day |-> 0, ms |-> 0]]]

\* No call of calculateTrendDirection is followed.
NoTrendCall == [returned |-> FALSE, sessions |-> << >>, trend |-> "none"]

InitCalls ==
    /\ scoring = NoScoring
    /\ periodCall = NoPeriodCall
    /\ trendCall = NoTrendCall
    /\ InitController

InitS == InitClock /\ InitServer /\ InitAlerts /\ InitRecon /\ InitCalls

Times == 0..MaxTime
CallNumbers == 1..MaxCalls
\* one pass of checkAndGenerateAlerts saves at most four alerts
AlertIds == 1..(4 * MaxCalls)

\* The events a request may carry: a duration comes with disconnected and reconnected
\* events, a latency with any.
EventInputs ==
    {in \in [type : EventTypes, duration : Durations, latency : Latencies] :
        in.duration # Undefined => in.type \in {"disconnected", "reconnected"}}

\* The events of one outage: the disconnection with its downtime, then a failed or a
\* successful reconnection; no latency.
PlainInputs ==
    {in \in EventInputs :
        /\ in.latency = Undefined
        /\ in.type \in {"disconnected", "reconnected", "failed"}
        /\ (in.duration # Undefined <=> in.type = "disconnected")}

ServerStep(Inputs) ==
    \/ \E id \in SessionIds, t \in Times : SaveSession(id, t)
    \/ \E sid \in SessionIds, in \in Inputs :
          AddConnectionEventRead(sid, in.type, in.duration, in.latency)
    \/ \E n \in CallNumbers, t \in Times : AddConnectionEventWrite(n, t)
    \/ \E sid \in SessionIds : CompleteSessionRead(sid)
    \/ \E n \in CallNumbers, t \in Times : CompleteSessionWrite(n, t)

AlertStep ==
    \/ \E id \in AlertIds, t \in Times : ServerAcknowledgeAlert(id, t)
    \/ \E id \in AlertIds, t \in Times : ServerDismissAlert(id, t)

NextServer == ServerStep(EventInputs)
NextServerPlain == ServerStep(PlainInputs)
NextServerAlerts == ServerStep(EventInputs) \/ AlertStep

\* The session service under every input of the model.
SpecServer == InitS /\ [][NextServer]_vars
\* The session service under the events of an outage.
SpecServerPlain == InitS /\ [][NextServerPlain]_vars
\* The session service with the alert endpoints.
SpecServerAlerts == InitS /\ [][NextServerAlerts]_vars

\* The service after its first request for an event: session s1 was saved at 0 and
\* addConnectionEvent has stored one event of an outage for it, the alerts of that
\* pass and the first historical metrics.
InitServerResumed ==
    \E in \in PlainInputs :
        LET first == [call |-> 0, type |-> in.type, duration |-> in.duration,
                      latency |-> in.latency, timestamp |-> 0]
            s == ApplyEvent(NewSession(0), first, 0)
            store == [id \in {"s1"} |-> Stored(s)]
        IN  /\ sessions = store
            /\ alerts = SaveAlerts(<< >>, GeneratedAlerts(s, "s1", 0))
            /\ history = UpdateHistoricalMetrics(s, store, << >>, 0)
            /\ calls = {}
            /\ nextCall = 1
            /\ returned = {}
            /\ dismissed = {}
            /\ lastResult = [op |-> "addConnectionEvent", arg |-> "s1", ret |-> "session"]

InitResumed == InitClock /\ InitServerResumed /\ InitAlerts /\ InitRecon /\ InitCalls

\* The session service from its first stored event on, under the events of an outage.
SpecServerResumed == InitResumed /\ [][NextServerPlain]_vars

-----------------------------------------------------------------------------
(* calculateQualityScore on its own: the sessions it may be handed          *)

\* The failed reconnections counted so far: none yet (the field is absent), or some.
FailedCounts == {Undefined, 1, 2}
\* averageLatency as sum and count of the latencies: absent, 0 ms, 300 ms, 1250 ms.
LatencyTotals == {<<Undefined, 0>>, <<0, 1>>, <<300, 1>>, <<2500, 2>>}

\* A session created at 0 and last updated at dur, with the metrics given; the rate is
\* there once a reconnection succeeded or failed.
ScoredSession(dc, tdt, dur, rc, fc, lat) ==
    LET s == NewSession(0)
        m == [s.metrics EXCEPT !.disconnectionCount = dc,
                               !.totalDisconnectionTime = tdt,
                               !.reconnectionCount = rc,
                               !.failedReconnectionCount = fc,
                               !.latencySum = lat[1],
                               !.latencyCount = lat[2]]
    IN  [s EXCEPT !.updatedAt = dur,
                  !.metrics = IF rc > 0 \/ fc # Undefined THEN UpdateRate(m) ELSE m]

ScoredSessions ==
    {ScoredSession(dc, tdt, dur, rc, fc, lat) :
        dc \in 0..MaxDisconnections, tdt \in 0..(MaxDuration + 1), dur \in 0..MaxDuration,
        rc \in 0..1, fc \in FailedCounts, lat \in LatencyTotals}

InitScore ==
    /\ InitClock /\ InitServer /\ InitAlerts /\ InitRecon /\ InitController
    /\ periodCall = NoPeriodCall
    /\ trendCall = NoTrendCall
    /\ \E session \in ScoredSessions :
          scoring = [returned |-> FALSE, session |-> session, score |-> Undefined]

\* A variant that does not cap the penalty for the disconnections at 30.
CalculateQualityScoreUncapped(s) ==
    LET capped == CalculateQualityScore(s)
        extra == Max(0, s.metrics.disconnectionCount * 5 - 30)
    IN  IF capped = NaN THEN NaN ELSE Max(0, capped - extra)

\* The call with the variant's result.
CalculateQualityScoreCallUncapped ==
    /\ ~scoring.returned
    /\ scoring' = [scoring EXCEPT !.returned = TRUE,
                                  !.score = CalculateQualityScoreUncapped(scoring.session)]
    /\ UNCHANGED <<now, serverVars, alertVars, reconVars, controllerVars, periodCall,
                   trendCall>>

\* calculateQualityScore(session) called and returned
CalculateQualityScoreCall ==
    /\ ~scoring.returned
    /\ scoring' = [scoring EXCEPT !.returned = TRUE,
                                  !.score = CalculateQualityScore(scoring.session)]
    /\ UNCHANGED <<now, serverVars, alertVars, reconVars, controllerVars, periodCall,
                   trendCall>>

NextScore == CalculateQualityScoreCall

\* calculateQualityScore on the sessions of ScoredSessions.
SpecScore == InitScore /\ [][NextScore]_vars

-----------------------------------------------------------------------------
(* The period starts of updateHistoricalMetrics on their own. A local date  *)
(* is a day number and the time of day in ms; day 0 is the first day of a   *)
(* month of 30 days, a Saturday, and the month before it has 31 days.       *)

Dates == [day : 0..MaxDay, ms : Times]

\* Date.prototype.getDay(): 0 is Sunday
GetDayOf(d) == (d + 6) % 7

\* new Date(year, month, 1) for the year and month of day d
MonthStartDay(d) == IF d < 0 THEN -31 ELSE IF d < 30 THEN 0 ELSE 30

\* today, weekStart and monthStart as updateHistoricalMetrics computes them:
\* now.setDate(...) moves now itself, and monthStart is taken from now after that
PeriodStarts(date) ==
    LET today == [day |-> date.day, ms |-> 0]
        moved == [date EXCEPT !.day = @ - GetDayOf(@)]
        monthStart == [day |-> MonthStartDay(moved.day), ms |-> 0]
    IN  [day |-> today, week |-> moved, month |-> monthStart]

InitPeriods ==
    /\ InitClock /\ InitServer /\ InitAlerts /\ InitRecon /\ InitController
    /\ scoring = NoScoring
    /\ trendCall = NoTrendCall
    /\ \E date \in Dates : periodCall = [NoPeriodCall EXCEPT !.now = date]

\* updateHistoricalMetrics run on the date up to its list of periods
PeriodStartsCall ==
    /\ ~periodCall.returned
    /\ periodCall' = [periodCall EXCEPT !.returned = TRUE,
                                        !.starts = PeriodStarts(periodCall.now)]
    /\ UNCHANGED <<now, serverVars, alertVars, reconVars, controllerVars, scoring,
                   trendCall>>

NextPeriods == PeriodStartsCall

\* The period starts on the dates of Dates.
SpecPeriods == InitPeriods /\ [][NextPeriods]_vars

-----------------------------------------------------------------------------
(* calculateTrendDirection of the client's trend analysis                   *)
(* (src/unnamed/part_007) on its own                                        *)

\* The values of the tracked property, and the session lists handed over: time-ordered,
\* the i-th session created at time i.
TrendValues == {0, 19, 20, 21}
TrendSessions ==
    UNION {[1..n -> [createdAt : {0}, value : TrendValues]] : n \in 3..MaxSessions}

TimeOrdered(list) == [i \in DOMAIN list |-> [list[i] EXCEPT !.createdAt = i]]

\* [...sessions].sort((a, b) => new Date(a.createdAt) - new Date(b.createdAt)):
\* the sessions by rising createdAt, those of equal time in their order
SortByCreatedAt(list) ==
    LET Before(i, j) ==
            \/ list[i].createdAt < list[j].createdAt
            \/ list[i].createdAt = list[j].createdAt /\ i < j
        Rank(i) == 1 + Cardinality({j \in DOMAIN list : Before(j, i)})
    IN  [k \in DOMAIN list |-> list[CHOOSE i \in DOMAIN list : Rank(i) = k]]

\* calculateAverage(sessions, property) times the number of sessions: the total
SegmentTotal(list, from, to) == SumSeq([i \in 1..(to - from + 1) |-> list[from + i - 1].value])

\* calculateTrendDirection: both segments have the same length, so the change in
\* percent is (lastTotal - firstTotal) / firstTotal * 100; x / 0 is Infinity, 0 / 0 NaN
CalculateTrendDirection(list) ==
    IF Len(list) < 3 THEN "stable"
    ELSE LET ordered == SortByCreatedAt(list)
             third == Len(ordered) \div 3
             first == SegmentTotal(ordered, 1, third)
             last == SegmentTotal(ordered, Len(ordered) - third + 1, Len(ordered))
             diff == last - first
             abs == IF diff < 0 THEN -diff ELSE diff
         IN  IF first = 0
               THEN (IF diff > 0 THEN "improving" ELSE "declining")
               ELSE IF 100 * abs < 5 * first THEN "stable"
               ELSE IF diff > 0 THEN "improving"
               ELSE "declining"

InitTrend ==
    /\ InitClock /\ InitServer /\ InitAlerts /\ InitRecon /\ InitController
    /\ scoring = NoScoring
    /\ periodCall = NoPeriodCall
    /\ \E list \in TrendSessions :
          trendCall = [NoTrendCall EXCEPT !.sessions = TimeOrdered(list)]

\* calculateTrendDirection(sessions, property) called and returned
CalculateTrendDirectionCall ==
    /\ ~trendCall.returned
    /\ trendCall' = [trendCall EXCEPT !.returned = TRUE,
                                      !.trend = CalculateTrendDirection(trendCall.sessions)]
    /\ UNCHANGED <<now, serverVars, alertVars, reconVars, controllerVars, scoring,
                   periodCall>>

NextTrend == CalculateTrendDirectionCall

\* calculateTrendDirection on the lists of TrendSessions.
SpecTrend == InitTrend /\ [][NextTrend]_vars

-----------------------------------------------------------------------------
(* The recording controller (src/src/controllers/recordingController.ts)    *)
(* with the process manager (src/unnamed/part_012). A request handler is    *)
(* one step; the calls of the session service it awaits run to their end.   *)

\* registerProcess(processId, type, process?): process is TRUE when a ChildProcess
\* object is passed
RegisterProcess(pm, pid, type, process) ==
    [pm EXCEPT ![pid] = [registered |-> TRUE, process |-> process, type |-> type]]

\* isProcessRunning(processId): !!(info && info.process)
IsProcessRunning(pm, pid) == pm[pid].registered /\ pm[pid].process

\* getProcessType(processId): "none" stands for undefined
GetProcessType(pm, pid) == IF pm[pid].registered THEN pm[pid].type ELSE "none"

\* The files of the service, as one value.
ServiceState == [sessions |-> sessions, alerts |-> alerts, history |-> history]

\* addConnectionEvent(sessionId, eventType, details, duration) from its read to its
\* end, as call number n at time t
AddConnectionEvent(st, sid, type, duration, n, t) ==
    LET c == [call |-> n, type |-> type, duration |-> duration, latency |-> Undefined]
        s == ApplyEvent(st.sessions[sid], NewEvent(c, t), t)
        store == WriteSession(st.sessions, sid, s)
    IN  [sessions |-> store,
         alerts |-> SaveAlerts(st.alerts, GeneratedAlerts(s, sid, t)),
         history |-> UpdateHistoricalMetrics(s, store, st.history, t)]

\* completeSession(sessionId) from its read to its end
CompleteSessionCall(st, sid, n, t) ==
    LET c == [call |-> n, type |-> "connected", duration |-> Undefined,
              latency |-> Undefined]
        s == CompleteSession(st.sessions[sid], NewEvent(c, t), t)
        store == WriteSession(st.sessions, sid, s)
    IN  [sessions |-> store,
         alerts |-> st.alerts,
         history |-> UpdateHistoricalMetrics(s, store, st.history, t)]

SetServiceState(st) ==
    /\ sessions' = st.sessions
    /\ alerts' = st.alerts
    /\ history' = st.history

\* sessions.find(s => s.processId === processId) on getSessions(), newest first
FindByProcessId(pid) ==
    LET found == {sid \in DOMAIN sessions : processOf[sid] = pid} IN
    IF found = {} THEN "none"
    ELSE CHOOSE sid \in found :
            \A other \in found :
               \/ sessions[sid].createdAt > sessions[other].createdAt
               \/ /\ sessions[sid].createdAt = sessions[other].createdAt
                  /\ IdOrder[sid] <= IdOrder[other]

\* Clock readings of one handler, one after the other
ClockReadings2(t1, t2) ==
    /\ t1 \in now..(now + 1)
    /\ t2 \in t1..(t1 + 1)
    /\ t2 <= MaxTime
    /\ now' = t2

ClockReadings3(t1, t2, t3) ==
    /\ t1 \in now..(now + 1)
    /\ t2 \in t1..(t1 + 1)
    /\ t3 \in t2..(t2 + 1)
    /\ t3 <= MaxTime
    /\ now' = t3

\* POST /api/recording/start: exec starts the child process (spawned: it has a pid),
\* the process id is registered, the session is saved, and the exit listener is
\* attached to the ChildProcess the manager holds, if it holds one
ControllerStartRecording(id, spawned, t) ==
    /\ requests < MaxRequests
    /\ requests' = requests + 1
    /\ childProcess.state = "none"
    /\ id = NextId(sessions)
    /\ IF spawned
         THEN \E pid \in ProcessIds :
              /\ Clock(t)
              /\ childProcess' = [state |-> "running", code |-> Undefined]
              /\ processes' = RegisterProcess(processes, pid, "recording", FALSE)
              /\ sessions' = [x \in DOMAIN sessions \cup {id} |->
                                 IF x = id THEN NewSession(t) ELSE sessions[x]]
              /\ processOf' = [processOf EXCEPT ![id] = pid]
              /\ listeners' =
                    IF processes'[pid].registered /\ processes'[pid].process
                      THEN [listeners EXCEPT !.controller = @ \cup {id}]
                      ELSE listeners
         ELSE UNCHANGED <<now, childProcess, processes, sessions, processOf, listeners>>
    /\ lastResult' = [op |-> "startRecording", arg |-> id, ret |-> "200"]
    /\ UNCHANGED <<alerts, history, calls, nextCall, returned, dismissed, statusAnswer,
                   pureVars, alertVars, reconVars>>

ExitCodes == {0, 1}

\* The child process ends by itself with an exit code.
ProcessExit(code) ==
    /\ childProcess.state = "running"
    /\ childProcess' = [state |-> "exiting", code |-> code]
    /\ UNCHANGED <<now, serverVars, alertVars, reconVars, pureVars, processes, listeners,
                   processOf, statusAnswer, requests>>

\* The 'exit' event reaches the listeners: the manager's listener clears info.process,
\* the controller's listener completes the session after code 0 and records a failed
\* event otherwise
ExitEmitted(t) ==
    /\ childProcess.state = "exiting"
    /\ childProcess' = [childProcess EXCEPT !.state = "exited"]
    /\ processes' = IF listeners.manager
                      THEN [pid \in ProcessIds |-> [processes[pid] EXCEPT !.process = FALSE]]
                      ELSE processes
    /\ IF listeners.controller = {}
         THEN UNCHANGED <<now, sessions, alerts, history, nextCall>>
         ELSE \E sid \in listeners.controller :
              /\ Clock(t)
              /\ nextCall' = nextCall + 1
              /\ SetServiceState(
                    IF childProcess.code = 0
                      THEN CompleteSessionCall(ServiceState, sid, nextCall, t)
                      ELSE AddConnectionEvent(ServiceState, sid, "failed", Undefined,
                                              nextCall, t))
    /\ UNCHANGED <<calls, returned, dismissed, lastResult, alertVars, reconVars, pureVars,
                   listeners, processOf, statusAnswer, requests>>

\* GET /api/recording/status/:pid
StatusOf(pm, pid) ==
    LET isRunning == IsProcessRunning(pm, pid)
        processType == GetProcessType(pm, pid)
    IN  [asked |-> TRUE,
         status |-> IF isRunning /\ processType = "recording" THEN "recording"
                    ELSE IF ~isRunning /\ processType = "recording" THEN "stopped"
                    ELSE IF isRunning /\ processType = "replay" THEN "replaying"
                    ELSE IF ~isRunning /\ processType = "replay" THEN "replay_stopped"
                    ELSE "unknown",
         isRunning |-> isRunning]

GetRecordingStatus(pid) ==
    /\ requests < MaxRequests
    /\ requests' = requests + 1
    /\ statusAnswer' = StatusOf(processes, pid)
    /\ UNCHANGED <<now, serverVars, alertVars, reconVars, pureVars, childProcess,
                   processes, listeners, processOf>>

\* The event types and durations a client may post for a process.
ControllerInputs ==
    {in \in [type : EventTypes, duration : Durations] :
        in.duration # Undefined => in.type \in {"disconnected", "reconnected"}}

\* POST /api/recording/connection-event/:processId: recoverSessionByProcessId, which
\* adds its recovery event to the session it finds, then addConnectionEvent with the
\* event of the request
RecordConnectionEvent(pid, type, duration, t1, t2) ==
    /\ requests < MaxRequests
    /\ requests' = requests + 1
    /\ LET sid == FindByProcessId(pid) IN
       IF sid = "none"
         THEN /\ lastResult' = [op |-> "recordConnectionEvent", arg |-> "none", ret |-> "404"]
              /\ UNCHANGED <<now, sessions, alerts, history, nextCall>>
         ELSE /\ ClockReadings2(t1, t2)
              /\ LET recovered == AddConnectionEvent(ServiceState, sid, "reconnected",
                                                     Undefined, nextCall, t1)
                 IN  SetServiceState(AddConnectionEvent(recovered, sid, type, duration,
                                                        nextCall + 1, t2))
              /\ nextCall' = nextCall + 2
              /\ lastResult' = [op |-> "recordConnectionEvent", arg |-> sid, ret |-> "200"]
    /\ UNCHANGED <<calls, returned, dismissed, alertVars, reconVars, pureVars, childProcess,
                   processes, listeners, processOf, statusAnswer>>

\* killProcess(processId): FALSE when the manager holds no ChildProcess for the id
KillProcess(pm, pid) == pm[pid].registered /\ pm[pid].process

\* POST /api/recording/stop/:pid: the session of the process gets the recovery event,
\* a disconnected event and its completion, then the process is killed
StopRecording(pid, t1, t2, t3) ==
    /\ requests < MaxRequests
    /\ requests' = requests + 1
    /\ LET sid == FindByProcessId(pid) IN
       IF sid = "none"
         THEN UNCHANGED <<now, sessions, alerts, history, nextCall>>
         ELSE /\ ClockReadings3(t1, t2, t3)
              /\ LET recovered == AddConnectionEvent(ServiceState, sid, "reconnected",
                                                     Undefined, nextCall, t1)
                     stopped == AddConnectionEvent(recovered, sid, "disconnected",
                                                   Undefined, nextCall + 1, t2)
                 IN  SetServiceState(CompleteSessionCall(stopped, sid, nextCall + 2, t3))
              /\ nextCall' = nextCall + 3
    /\ IF KillProcess(processes, pid)
         THEN /\ processes' = [processes EXCEPT ![pid].process = FALSE]
              /\ childProcess' = IF childProcess.state = "running"
                                   THEN [state |-> "exiting", code |-> Null]
                                   ELSE childProcess
              /\ lastResult' = [op |-> "stopRecording", arg |-> pid, ret |-> "200"]
         ELSE /\ UNCHANGED <<processes, childProcess>>
              /\ lastResult' = [op |-> "stopRecording", arg |-> pid, ret |-> "404"]
    /\ UNCHANGED <<calls, returned, dismissed, alertVars, reconVars, pureVars, listeners,
                   processOf, statusAnswer>>

RequestStep ==
    \/ \E id \in SessionIds, spawned \in BOOLEAN, t \in Times :
          ControllerStartRecording(id, spawned, t)
    \/ \E pid \in ProcessIds : GetRecordingStatus(pid)
    \/ \E pid \in ProcessIds, in \in ControllerInputs, t1 \in Times, t2 \in Times :
          RecordConnectionEvent(pid, in.type, in.duration, t1, t2)

StopStep ==
    \E pid \in ProcessIds, t1 \in Times, t2 \in Times, t3 \in Times :
       StopRecording(pid, t1, t2, t3)

ProcessStep ==
    \/ \E code \in ExitCodes : ProcessExit(code)
    \/ \E t \in Times : ExitEmitted(t)

NextRecording == RequestStep \/ StopStep \/ ProcessStep

\* The recording controller with its process manager and the session service.
SpecRecording == InitS /\ [][NextRecording]_vars

\* The event loop delivers the exit event of a process that has ended.
RecordingFairness == WF_vars(\E t \in Times : ExitEmitted(t))

SpecRecordingFair == InitS /\ [][NextRecording]_vars /\ RecordingFairness

-----------------------------------------------------------------------------
(* The client alert engine (connection alerts module) with the quality     *)
(* score of connection-charts.js                                           *)

Event(type, duration, timestamp) ==
    [type |-> type, duration |-> duration, timestamp |-> timestamp]

\* Sessions as /api/sessions returns them: no events yet; the start alone; two
\* disconnections of 20 s within a minute; four of them, one reconnected.
NoEvents == << >>
StartOnly == << Event("connected", Undefined, 0) >>
TwoOutages ==
    << Event("connected", Undefined, 0), Event("disconnected", 20000, 20000),
       Event("disconnected", 20000, 60000) >>
FourOutages ==
    << Event("connected", Undefined, 0), Event("disconnected", 20000, 10000),
       Event("reconnected", Undefined, 20000), Event("disconnected", 20000, 30000),
       Event("disconnected", 20000, 40000), Event("disconnected", 20000, 60000) >>

\* The client watches one session.
ClientSessionIds == {"s1"}

ClientSessions ==
    [id : ClientSessionIds, connectionEvents : {NoEvents, StartOnly, TwoOutages, FourOutages}]

CountType(events, type) ==
    Cardinality({i \in DOMAIN events : events[i].type = type})

TotalDowntime(events) ==
    SumSeq([i \in DOMAIN events |-> OrZero(events[i].duration)])

\* calculateConnectionQuality(events).score, for a non-empty list:
\* 100 - downTimePercent * 0.5 - disconnectionFrequency * 10 + reconnectSuccess * 0.2
\* over the common denominator total * disconnected, clamped to 0..100, then rounded.
CalculateConnectionQuality(events) ==
    LET total == events[Len(events)].timestamp - events[1].timestamp
        down == TotalDowntime(events)
        nd == CountType(events, "disconnected")
        nr == CountType(events, "reconnected")
        dT == IF total > 0 THEN total ELSE 1
        dD == IF nd > 0 THEN nd ELSE 1
        downPart == IF total > 0 THEN 50 * down * dD ELSE 0
        freqPart == IF total > 0 THEN 600000 * nd * dD ELSE 0
        successPart == IF nd > 0 THEN 20 * nr * dT ELSE 20 * dT * dD
        num == 100 * dT * dD - downPart - freqPart + successPart
        den == dT * dD
    IN  IF num <= 0 THEN 0
        ELSE IF num >= 100 * den THEN 100
        ELSE Round(num, den)

\* calculateConnectionQuality(events).score for any list: an empty or missing list is
\* answered with the score 0 and the label 'N/A'
ConnectionQualityScore(events) ==
    IF Len(events) = 0 THEN 0 ELSE CalculateConnectionQuality(events)

AlertId(sessionId, t) == <<sessionId, t>>

QualityTitle == "Poor Connection Quality"

\* A variant that adds the alert without looking for a duplicate.
CreateAlertUnchecked(st, sessionId, title, level, t) ==
    LET alertId == AlertId(sessionId, t)
        alert == [id |-> alertId, sessionId |-> sessionId, title |-> title,
                  level |-> level, timestamp |-> t, acknowledged |-> FALSE]
    IN  [active |-> [k \in DOMAIN st.active \cup {alertId} |->
                        IF k = alertId THEN alert ELSE st.active[k]],
         sent |-> Append(st.sent, [event |-> "alert-created", id |-> alertId,
                                   title |-> title])]

\* createAlert(sessionId, title, message, level) at Date.now() = t, on the pair of the
\* active alerts and the notifications sent so far. The id is built from the session
\* and the millisecond; Map.set replaces an entry that has the same id.
CreateAlert(st, sessionId, title, level, t) ==
    LET alertId == AlertId(sessionId, t)
        alert == [id |-> alertId, sessionId |-> sessionId, title |-> title,
                  level |-> level, timestamp |-> t, acknowledged |-> FALSE]
        isDuplicate ==
            \E k \in DOMAIN st.active :
                /\ st.active[k].sessionId = sessionId
                /\ st.active[k].title = title
                /\ ~st.active[k].acknowledged
    IN  IF isDuplicate THEN st
        ELSE [active |-> [k \in DOMAIN st.active \cup {alertId} |->
                             IF k = alertId THEN alert ELSE st.active[k]],
              sent |-> Append(st.sent, [event |-> "alert-created", id |-> alertId,
                                        title |-> title])]

\* evaluateSession(session) after its guards; ts[i] is Date.now() at the i-th check
EvaluateSessionAlerts(st, session, th, ts) ==
    LET id == session.id
        events == session.connectionEvents
        score == CalculateConnectionQuality(events)
        disconnections == CountType(events, "disconnected")
        reconnectionCount == CountType(events, "reconnected")
        totalDowntime == TotalDowntime(events)
        st1 == IF score < th.qualityScore
                 THEN CreateAlert(st, id, QualityTitle,
                                  IF 10 * score < 6 * th.qualityScore
                                    THEN "critical" ELSE "warning", ts[1])
                 ELSE st
        st2 == IF disconnections > th.disconnectionCount
                 THEN CreateAlert(st1, id, "Excessive Disconnections", "warning", ts[2])
                 ELSE st1
        st3 == IF /\ disconnections > 0
                  /\ 100 * (disconnections - reconnectionCount)
                        > th.reconnectionFailRate * disconnections
                 THEN CreateAlert(st2, id, "High Reconnection Failure Rate", "warning", ts[3])
                 ELSE st2
    IN  IF totalDowntime > th.downtimeThreshold
          THEN CreateAlert(st3, id, "Excessive Downtime", "warning", ts[4])
          ELSE st3

\* Whether an unacknowledged alert of that session and title is active.
HasUnacknowledged(active, sessionId, title) ==
    \E k \in DOMAIN active :
        /\ active[k].sessionId = sessionId
        /\ active[k].title = title
        /\ ~active[k].acknowledged

\* The record of an operation in evalLog: the operation, its session, whether it sent
\* 'alert-created' for a quality alert, and whether it is an evaluation that directly
\* follows an evaluation of the same session which created a quality alert, and that
\* found the score below the threshold while an unacknowledged quality alert was active.
Logged(op, sessionId, hadQuality, sent) ==
    [op |-> op, sessionId |-> sessionId,
     createdQuality |-> \E i \in DOMAIN sent : sent[i].title = QualityTitle,
     again |-> /\ op = "evaluateSession"
               /\ evalLog.op = "evaluateSession"
               /\ evalLog.sessionId = sessionId
               /\ evalLog.createdQuality
               /\ hadQuality]

\* The readings of Date.now() during one pass: the clock never goes back
ClockReadings ==
    {ts \in [1..4 -> Times] : \A i \in 1..3 : ts[i] <= ts[i + 1]}

EvaluateSession(session, ts) ==
    /\ ts[1] >= now
    /\ now' = ts[4]
    /\ LET st == IF session.connectionEvents = << >>
                   THEN [active |-> activeAlerts, sent |-> << >>]
                   ELSE EvaluateSessionAlerts([active |-> activeAlerts, sent |-> << >>],
                                              session, userThresholds, ts)
       IN  /\ activeAlerts' = st.active
           /\ notifications' = st.sent
           /\ evalLog' = Logged("evaluateSession", session.id,
                                 /\ session.connectionEvents # << >>
                                 /\ CalculateConnectionQuality(session.connectionEvents)
                                       < userThresholds.qualityScore
                                 /\ HasUnacknowledged(activeAlerts, session.id, QualityTitle),
                                 st.sent)
    /\ UNCHANGED <<userThresholds, serverVars, reconVars, callVars>>

\* evaluateConnectionStatus(event): an alert for a disconnected or failed status
EvaluateConnectionStatus(sessionId, status, t) ==
    /\ status \in {"disconnected", "failed"}
    /\ Clock(t)
    /\ LET st == CreateAlert([active |-> activeAlerts, sent |-> << >>], sessionId,
                             IF status = "disconnected"
                               THEN "Connection Lost" ELSE "Connection Failed",
                             IF status = "disconnected" THEN "warning" ELSE "critical", t)
       IN  /\ activeAlerts' = st.active
           /\ notifications' = st.sent
           /\ evalLog' = Logged("evaluateConnectionStatus", sessionId, FALSE, st.sent)
    /\ UNCHANGED <<userThresholds, serverVars, reconVars, callVars>>

\* acknowledgeAlert(alertId) of the client
AcknowledgeAlert(alertId) ==
    /\ alertId \in DOMAIN activeAlerts
    /\ activeAlerts' = [activeAlerts EXCEPT ![alertId].acknowledged = TRUE]
    /\ notifications' = << [event |-> "alert-acknowledged", id |-> alertId,
                            title |-> activeAlerts[alertId].title] >>
    /\ evalLog' = Logged("acknowledgeAlert", activeAlerts[alertId].sessionId, FALSE, << >>)
    /\ UNCHANGED <<now, userThresholds, serverVars, reconVars, callVars>>

\* dismissAlert(alertId) of the client
DismissAlert(alertId) ==
    /\ alertId \in DOMAIN activeAlerts
    /\ activeAlerts' = [k \in DOMAIN activeAlerts \ {alertId} |-> activeAlerts[k]]
    /\ notifications' = << [event |-> "alert-dismissed", id |-> alertId,
                            title |-> activeAlerts[alertId].title] >>
    /\ evalLog' = Logged("dismissAlert", activeAlerts[alertId].sessionId, FALSE, << >>)
    /\ UNCHANGED <<now, userThresholds, serverVars, reconVars, callVars>>

\* getActiveAlerts(): the ids of the alerts listed
GetActiveAlerts == DOMAIN activeAlerts

\* updateThresholds(newThresholds): the sessions are evaluated again once fetched
ThresholdChoices == {DEFAULT_THRESHOLDS, [DEFAULT_THRESHOLDS EXCEPT !.qualityScore = 40]}

UpdateThresholds(newThresholds) ==
    /\ userThresholds # newThresholds
    /\ userThresholds' = newThresholds
    /\ notifications' = << >>
    /\ evalLog' = Logged("updateThresholds", "none", FALSE, << >>)
    /\ UNCHANGED <<now, activeAlerts, serverVars, reconVars, callVars>>

ClientAlertIds == ClientSessionIds \X Times

NextAlerts ==
    \/ \E session \in ClientSessions, ts \in ClockReadings : EvaluateSession(session, ts)
    \/ \E sid \in ClientSessionIds, status \in {"disconnected", "failed"}, t \in Times :
          EvaluateConnectionStatus(sid, status, t)
    \/ \E alertId \in ClientAlertIds : AcknowledgeAlert(alertId)
    \/ \E alertId \in ClientAlertIds : DismissAlert(alertId)
    \/ \E th \in ThresholdChoices : UpdateThresholds(th)

\* The client alert engine.
SpecAlerts == InitS /\ [][NextAlerts]_vars

-----------------------------------------------------------------------------
(* The client reconnection machine (app.js), for one recording process     *)

Suspend(t, kind) == [t EXCEPT ![kind] = @ + 1]
Resume(t, kind) == [t EXCEPT ![kind] = @ - 1]

\* recordConnectionEvent(pid, type, details): one more event of that kind. The events
\* followed are those of the reconnection attempts, of handleProcessCrash and of the
\* online and offline handlers.
EventKinds == {"reconnecting", "reconnected", "failed", "maximum", "crashed", "disconnected"}
NoEvent == [k \in EventKinds |-> 0]
Record(log, kind) == [log EXCEPT ![kind] = @ + 1]

\* tryReconnectToRecording(pid) up to its first await, on the machine's variables
\* as a record: nothing when an attempt is running.
TryReconnectStart(m) ==
    IF m.isReconnecting THEN m
    ELSE [m EXCEPT !.isReconnecting = TRUE,
                   !.reconnectAttempts = @ + 1,
                   !.lastKnownStatus = "reconnecting",
                   !.eventLog = Record(@, "reconnecting"),
                   !.tasks = Suspend(@, "fetching")]

Machine ==
    [isReconnecting |-> isReconnecting, reconnectAttempts |-> reconnectAttempts,
     errorCount |-> errorCount, lastKnownStatus |-> lastKnownStatus,
     pollingInterval |-> pollingInterval, currentRecordingPid |-> currentRecordingPid,
     tasks |-> tasks, polls |-> polls, eventLog |-> eventLog]

SetMachine(m) ==
    /\ isReconnecting' = m.isReconnecting
    /\ reconnectAttempts' = m.reconnectAttempts
    /\ errorCount' = m.errorCount
    /\ lastKnownStatus' = m.lastKnownStatus
    /\ pollingInterval' = m.pollingInterval
    /\ currentRecordingPid' = m.currentRecordingPid
    /\ tasks' = m.tasks
    /\ polls' = m.polls
    /\ eventLog' = m.eventLog

\* The model follows the attempt counter up to MaxAttempts.
MayStartAttempt == isReconnecting \/ reconnectAttempts < MaxAttempts

\* The page as loaded: with no saved recording process, or with the process a former
\* page left in localStorage and the load handler asking for its status.
InitReconLoaded ==
    /\ isReconnecting = FALSE
    /\ reconnectAttempts = 0
    /\ errorCount = 0
    /\ lastKnownStatus = "null"
    /\ pollingInterval = FALSE
    /\ currentRecordingPid = FALSE
    /\ savedProcess \in BOOLEAN
    /\ tasks = IF savedProcess THEN Suspend(NoTasks, "load") ELSE NoTasks
    /\ polls = NoPolls
    /\ userActions = 0
    /\ eventLog = NoEvent

InitLoaded == InitClock /\ InitServer /\ InitAlerts /\ InitReconLoaded /\ InitCalls

\* startRecordingStatusPolling(pid) up to the initial status check
StartPolling(m) ==
    [m EXCEPT !.currentRecordingPid = TRUE,
              !.pollingInterval = FALSE,
              !.errorCount = 0,
              !.reconnectAttempts = 0,
              !.isReconnecting = FALSE,
              !.eventLog = NoEvent,
              !.tasks = Suspend(@, "initial")]

\* The start of a recording: startRecordingStatusPolling(pid) up to the initial status
\* check, then localStorage.setItem('currentRecordingProcess', pid)
StartRecording ==
    /\ ~savedProcess
    /\ SetMachine(StartPolling(Machine))
    /\ savedProcess' = TRUE
    /\ UNCHANGED <<now, userActions, serverVars, alertVars, callVars>>

LoadOutcomes == {"recording", "inactive", "error"}

\* The load handler after the status response for the saved process: the recording is
\* active and polling is started, or it is not and the saved process is removed, or
\* the status is not to be had and the saved process is kept
LoadChecked(outcome) ==
    /\ tasks["load"] > 0
    /\ LET m == [Machine EXCEPT !.tasks = Resume(@, "load")] IN
       SetMachine(IF outcome = "recording" THEN StartPolling(m) ELSE m)
    /\ savedProcess' = (outcome # "inactive")
    /\ UNCHANGED <<now, userActions, serverVars, alertVars, callVars>>

\* checkRecordingStatus(pid) once the response is there: the process runs, or it has
\* stopped; an error is left to the caller
CheckRecordingStatus(m, outcome) ==
    IF outcome = "running"
      THEN [m EXCEPT !.lastKnownStatus = "connected"]
      ELSE [m EXCEPT !.lastKnownStatus = "idle",
                     !.pollingInterval = FALSE,
                     !.currentRecordingPid = FALSE]

StatusOutcomes == {"running", "stopped", "error"}

\* startRecordingStatusPolling after the initial status check
InitialCheckDone(outcome) ==
    /\ tasks["initial"] > 0
    /\ LET m == [Machine EXCEPT !.tasks = Resume(@, "initial")] IN
       IF outcome = "error"
         THEN SetMachine([m EXCEPT !.lastKnownStatus = "disconnected"])
         ELSE SetMachine([CheckRecordingStatus(m, outcome) EXCEPT
                             !.lastKnownStatus = "connected",
                             !.pollingInterval = TRUE])
    /\ UNCHANGED <<now, savedProcess, userActions, serverVars, alertVars, callVars>>

\* A tick of the setInterval timer: every status check in flight is one tick older, and
\* the callback starts a status check unless an attempt is running. A check of age
\* MaxPollAge has been answered or aborted before the tick.
PollTick ==
    /\ pollingInterval
    /\ polls[MaxPollAge] = "none"
    /\ polls' = [a \in PollAges |->
                    IF a = 0 THEN (IF isReconnecting THEN "none" ELSE "fresh")
                    ELSE polls[a - 1]]
    /\ UNCHANGED <<now, isReconnecting, reconnectAttempts, errorCount, lastKnownStatus,
                   pollingInterval, currentRecordingPid, savedProcess, tasks, userActions,
                   eventLog, serverVars, alertVars, callVars>>

\* A variant that counts a failed status check twice.
CountErrorTwice(n) == IF n + 2 >= MAX_ERROR_COUNT THEN MAX_ERROR_COUNT ELSE n + 2

\* errorCount++, followed up to MAX_ERROR_COUNT: the code treats all larger values alike
CountError(n) == IF n >= MAX_ERROR_COUNT THEN MAX_ERROR_COUNT ELSE n + 1

\* handleProcessCrash(pid) up to the recording of its event
HandleProcessCrash(m) ==
    [m EXCEPT !.lastKnownStatus = "disconnected",
              !.eventLog = Record(@, "crashed"),
              !.tasks = Suspend(@, "crash")]

\* The status checks in flight once the check of age a is answered: it is gone, and
\* when it found the process running, the checks started before it are marked stale
AnsweredPolls(a, outcome) ==
    [b \in PollAges |->
        IF b = a THEN "none"
        ELSE IF outcome = "running" /\ b > a /\ polls[b] # "none" THEN "stale"
        ELSE polls[b]]

\* The setInterval callback after its status check of age a
PollDone(a, outcome) ==
    /\ polls[a] # "none"
    /\ outcome = "error" /\ errorCount + 1 >= MAX_ERROR_COUNT => MayStartAttempt
    /\ LET m == [Machine EXCEPT !.polls = AnsweredPolls(a, outcome)] IN
       IF outcome = "error"
         THEN LET counted == [m EXCEPT !.errorCount = CountError(@)] IN
              SetMachine(IF counted.errorCount = 3
                           THEN [counted EXCEPT !.lastKnownStatus = "warning"]
                         ELSE IF counted.errorCount >= MAX_ERROR_COUNT
                           THEN TryReconnectStart(counted)
                         ELSE counted)
         ELSE LET checked == CheckRecordingStatus(m, outcome) IN
              SetMachine(IF checked.lastKnownStatus = "recording" /\ outcome = "stopped"
                           THEN HandleProcessCrash(checked)
                           ELSE [checked EXCEPT !.errorCount = 0])
    /\ UNCHANGED <<now, savedProcess, userActions, serverVars, alertVars, callVars>>

ReconnectOutcomes == {"running", "notRunning", "notOk", "error"}

\* tryReconnectToRecording from the status response to its next await or its return:
\* the process runs, the process is known but not running, the response is unusable,
\* or a request threw
ReconnectFetched(outcome) ==
    /\ tasks["fetching"] > 0
    /\ LET m == [Machine EXCEPT !.tasks = Resume(@, "fetching")] IN
       SetMachine(
         CASE outcome = "running" ->
                [m EXCEPT !.eventLog = Record(@, "reconnected"),
                          !.tasks = Suspend(@, "reconnected")]
           [] outcome = "notRunning" ->
                [m EXCEPT !.eventLog = Record(@, "failed"),
                          !.tasks = Suspend(@, "dead")]
           [] OTHER ->
                IF m.reconnectAttempts >= MAX_RECONNECT_ATTEMPTS
                  THEN [m EXCEPT !.eventLog = Record(@, "maximum"),
                                 !.tasks = Suspend(@, "max")]
                  ELSE [m EXCEPT !.isReconnecting = FALSE])
    /\ UNCHANGED <<now, savedProcess, userActions, serverVars, alertVars, callVars>>

\* handleDeadProcess and handleMaxReconnectFailed up to the cleanup request
HandleFailed(m) ==
    [m EXCEPT !.lastKnownStatus = "disconnected", !.tasks = Suspend(@, "cleanup")]

\* tryReconnectToRecording after the result of the attempt is recorded
ReconnectRecorded(kind) ==
    /\ kind \in {"reconnected", "dead", "max"}
    /\ tasks[kind] > 0
    /\ kind # "reconnected" => tasks["cleanup"] <= MaxInFlight
    /\ LET m == [Machine EXCEPT !.tasks = Resume(@, kind)] IN
       SetMachine(
         IF kind = "reconnected"
           THEN [m EXCEPT !.lastKnownStatus = "connected",
                          !.errorCount = 0,
                          !.reconnectAttempts = 0,
                          !.isReconnecting = FALSE,
                          !.eventLog = NoEvent]
           ELSE [HandleFailed(m) EXCEPT !.isReconnecting = FALSE])
    /\ UNCHANGED <<now, savedProcess, userActions, serverVars, alertVars, callVars>>

\* resetUIState()
ResetUIState(m) ==
    [m EXCEPT !.currentRecordingPid = FALSE, !.pollingInterval = FALSE]

\* handleDeadProcess and handleMaxReconnectFailed after the cleanup request (resetUIState),
\* handleProcessCrash after its event and its cleanup request (clearInterval)
CleanupDone(kind) ==
    /\ kind \in {"cleanup", "crash"}
    /\ tasks[kind] > 0
    /\ LET m == [Machine EXCEPT !.tasks = Resume(@, kind)] IN
       SetMachine(IF kind = "cleanup" THEN ResetUIState(m)
                  ELSE [m EXCEPT !.pollingInterval = FALSE])
    /\ UNCHANGED <<now, savedProcess, userActions, serverVars, alertVars, callVars>>

\* The online handler up to the recording of its event
OnlineEvent ==
    /\ savedProcess
    /\ userActions < MaxUserActions
    /\ userActions' = userActions + 1
    /\ tasks' = Suspend(tasks, "online")
    /\ eventLog' = Record(eventLog, "reconnecting")
    /\ UNCHANGED <<now, isReconnecting, reconnectAttempts, errorCount, lastKnownStatus,
                   pollingInterval, currentRecordingPid, savedProcess, polls,
                   serverVars, alertVars, callVars>>

\* The online handler after it: state.recordingStatusInterval is never set, so the
\* attempt is always asked for
OnlineRecorded ==
    /\ tasks["online"] > 0
    /\ MayStartAttempt
    /\ SetMachine(TryReconnectStart([Machine EXCEPT !.tasks = Resume(@, "online")]))
    /\ UNCHANGED <<now, savedProcess, userActions, serverVars, alertVars, callVars>>

\* The offline handler
OfflineEvent ==
    /\ savedProcess
    /\ userActions < MaxUserActions
    /\ userActions' = userActions + 1
    /\ lastKnownStatus' = "disconnected"
    /\ eventLog' = Record(eventLog, "disconnected")
    /\ UNCHANGED <<now, isReconnecting, reconnectAttempts, errorCount,
                   pollingInterval, currentRecordingPid, savedProcess, tasks, polls,
                   serverVars, alertVars, callVars>>

\* A click on the reconnect button, which updateConnectionStatus shows for the
\* statuses disconnected and warning
ReconnectClick ==
    /\ lastKnownStatus \in {"disconnected", "warning"}
    /\ savedProcess
    /\ userActions < MaxUserActions
    /\ MayStartAttempt
    /\ userActions' = userActions + 1
    /\ SetMachine(TryReconnectStart(Machine))
    /\ UNCHANGED <<now, savedProcess, serverVars, alertVars, callVars>>

\* The steps of the timer: its ticks and the answers to its status checks.
TimerStep ==
    \/ PollTick
    \/ \E a \in PollAges, outcome \in StatusOutcomes : PollDone(a, outcome)

\* The steps that need neither a click nor a browser event after the page is loaded
\* and the recording started.
UnattendedStep ==
    \/ StartRecording
    \/ \E outcome \in LoadOutcomes : LoadChecked(outcome)
    \/ \E outcome \in StatusOutcomes : InitialCheckDone(outcome)
    \/ \E outcome \in ReconnectOutcomes : ReconnectFetched(outcome)
    \/ \E kind \in {"reconnected", "dead", "max"} : ReconnectRecorded(kind)
    \/ \E kind \in {"cleanup", "crash"} : CleanupDone(kind)

NextPolling == TimerStep \/ UnattendedStep

\* The polling timer and the reconnection attempts it starts.
SpecPolling == InitLoaded /\ [][NextPolling]_vars

\* The browser's online and offline events and the clicks on the reconnect button.
UserStep ==
    \/ OnlineEvent
    \/ OnlineRecorded
    \/ OfflineEvent
    \/ ReconnectClick

\* The same under the scheduling the code provides: the timer goes on ticking while it
\* is set, and a status check of checkRecordingStatus is answered or aborted by its
\* timeout. recordConnectionEvent, recoverSession and the cleanup request have no
\* timeout, so the steps that wait for them may never come.
PollingFairness ==
    /\ WF_vars(PollTick)
    /\ WF_vars(\E a \in PollAges, outcome \in StatusOutcomes : PollDone(a, outcome))
    /\ WF_vars(\E outcome \in StatusOutcomes : InitialCheckDone(outcome))

SpecPollingFair == InitLoaded /\ [][NextPolling]_vars /\ PollingFairness

NextReconnect == TimerStep \/ UnattendedStep \/ UserStep

\* The reconnection machine.
SpecReconnect == InitLoaded /\ [][NextReconnect]_vars

-----------------------------------------------------------------------------
(* The alert store and the stored metrics                                  *)

\* C2: the persisted alert store never holds two unacknowledged alerts with the same
\* (sessionId, type) pair.
C2_NoDuplicateUnacknowledgedAlert ==
    \A i, j \in DOMAIN alerts :
        (/\ i # j
         /\ ~alerts[i].acknowledged
         /\ ~alerts[j].acknowledged
         /\ alerts[i].sessionId = alerts[j].sessionId)
          => alerts[i].type # alerts[j].type

InInterval(x, lo, hi) == lo <= x /\ x <= hi

\* C4: for every stored session, one whose createdAt and updatedAt are the same instant
\* included, the stored qualityScore and stabilityPercentage, where present, are numbers
\* in [0,100] and the stored reconnectionSuccessRate, where present, is a number in [0,1].
C4_StoredMetricsInRange ==
    \A sid \in DOMAIN sessions :
        LET m == sessions[sid].metrics IN
        /\ m.qualityScore # Undefined => InInterval(m.qualityScore, 0, 100)
        /\ m.stabilityPercentage # Undefined => InInterval(m.stabilityPercentage, 0, 100)
        /\ m.rateNum # Undefined => m.rateDen > 0 /\ InInterval(m.rateNum, 0, m.rateDen)

\* The stored events that service calls appended, by the number of the call.
StoredCalls(store, sid) ==
    {store[sid].events[i].call : i \in DOMAIN store[sid].events}

IsPrefix(a, b) == Len(a) <= Len(b) /\ SubSeq(b, 1, Len(a)) = a

\* C5: the event log is append-only under concurrent addConnectionEvent and
\* completeSession calls: after every step the event of each call that returned a
\* session is stored, and the log each session had before the step is a prefix of
\* the log it has after it.
C5_EventLogAppendOnly ==
    [][ /\ \A c \in returned' : \E sid \in DOMAIN sessions' : c \in StoredCalls(sessions', sid)
        /\ \A sid \in DOMAIN sessions :
              IsPrefix(sessions[sid].events, sessions'[sid].events) ]_vars

\* The metrics recomputed from the first n stored events by the per-event rules: a
\* disconnected event counts one disconnection and adds its duration, a reconnected
\* event and every connected event after the first count one reconnection, a failed
\* event counts one failed reconnection.
RECURSIVE Recomputed(_, _)
Recomputed(events, n) ==
    IF n = 0
      THEN [disconnectionCount |-> 0, totalDisconnectionTime |-> 0,
            reconnectionCount |-> 0, failedReconnectionCount |-> 0]
      ELSE LET r == Recomputed(events, n - 1)
               e == events[n]
           IN  CASE e.type = "disconnected" ->
                      [r EXCEPT !.disconnectionCount = @ + 1,
                                !.totalDisconnectionTime = @ + OrZero(e.duration)]
                 [] e.type = "reconnected" -> [r EXCEPT !.reconnectionCount = @ + 1]
                 [] e.type = "connected" /\ n > 1 -> [r EXCEPT !.reconnectionCount = @ + 1]
                 [] e.type = "failed" -> [r EXCEPT !.failedReconnectionCount = @ + 1]
                 [] OTHER -> r

\* C6: the metrics recomputed from a session's stored events equal the stored
\* disconnectionCount, totalDisconnectionTime, reconnectionCount,
\* failedReconnectionCount and reconnectionSuccessRate (an absent failed count is 0,
\* an absent rate goes with no reconnection attempt).
C6_MetricsMatchEvents ==
    \A sid \in DOMAIN sessions :
        LET m == sessions[sid].metrics
            r == Recomputed(sessions[sid].events, Len(sessions[sid].events))
            attempts == r.reconnectionCount + r.failedReconnectionCount
        IN  /\ m.disconnectionCount = r.disconnectionCount
            /\ m.totalDisconnectionTime = r.totalDisconnectionTime
            /\ m.reconnectionCount = r.reconnectionCount
            /\ OrZero(m.failedReconnectionCount) = r.failedReconnectionCount
            /\ IF m.rateNum = Undefined
                 THEN attempts = 0
                 ELSE m.rateNum * attempts = r.reconnectionCount * m.rateDen

\* The number of connected events in a log.
ConnectedCount(events) ==
    Cardinality({i \in DOMAIN events : events[i].type = "connected"})

\* C7: the first connected event of a log leaves reconnectionCount at 0, and a step
\* that adds a later connected event to a stored log raises the stored
\* reconnectionCount by exactly one.
C7_LaterConnectedCountsOnce ==
    [][ \A sid \in DOMAIN sessions' :
          IF sid \notin DOMAIN sessions
            THEN sessions'[sid].metrics.reconnectionCount = 0
            ELSE (/\ Len(sessions'[sid].events) = Len(sessions[sid].events) + 1
                  /\ IsPrefix(sessions[sid].events, sessions'[sid].events)
                  /\ ConnectedCount(sessions'[sid].events)
                        = ConnectedCount(sessions[sid].events) + 1)
                   => sessions'[sid].metrics.reconnectionCount
                        = sessions[sid].metrics.reconnectionCount + 1 ]_vars

\* C8: acknowledging is irreversible and idempotent: a step never takes acknowledged
\* back to false, and a step on an alert that is already acknowledged (a second
\* acknowledge, or a dismiss that does not remove it) leaves its record, the
\* acknowledgement timestamp included, unchanged.
C8_AcknowledgeIdempotent ==
    [][ \A id \in DOMAIN alerts :
          (alerts[id].acknowledged /\ id \in DOMAIN alerts')
            => alerts'[id] = alerts[id] ]_vars

\* C9: after the dismiss endpoint answered 200 for an alert, no listing of a
\* session's alerts contains that alert.
C9_DismissedNotListed ==
    \A id \in dismissed : \A sid \in SessionIds : id \notin GetSessionAlerts(sid)

\* C10: addConnectionEvent with an id for which no session is stored returns null and
\* leaves the session files, the alert files and the historical metrics as they were.
C10_UnknownSessionReturnsNull ==
    [][ \A sid \in SessionIds, in \in EventInputs :
          (/\ sid \notin DOMAIN sessions
           /\ AddConnectionEventRead(sid, in.type, in.duration, in.latency))
            => /\ lastResult' = [op |-> "addConnectionEvent", arg |-> sid, ret |-> "null"]
               /\ calls' = calls
               /\ sessions' = sessions
               /\ alerts' = alerts
               /\ history' = history ]_vars

\* C10's case: the call for an unknown id has returned null while another session,
\* its alerts and the historical metrics are stored.
C10_Witness ==
    /\ lastResult.op = "addConnectionEvent"
    /\ lastResult.ret = "null"
    /\ lastResult.arg \notin DOMAIN sessions
    /\ DOMAIN sessions # {}
    /\ alerts # << >>
    /\ DOMAIN history # {}

-----------------------------------------------------------------------------
(* The client alert engine                                                 *)

\* C3: an evaluation of a session that finds an unacknowledged quality alert of that
\* session active creates no new quality alert: every quality alert of the session in
\* the active set afterwards was there before, unchanged, and the evaluation sends no
\* 'alert-created' notification for a quality alert.
C3_NoSecondQualityAlert ==
    [][ \A session \in ClientSessions, ts \in ClockReadings :
          (/\ HasUnacknowledged(activeAlerts, session.id, QualityTitle)
           /\ EvaluateSession(session, ts))
            => /\ \A k \in DOMAIN activeAlerts' :
                     (/\ activeAlerts'[k].sessionId = session.id
                      /\ activeAlerts'[k].title = QualityTitle)
                       => k \in DOMAIN activeAlerts /\ activeAlerts[k] = activeAlerts'[k]
               /\ \A i \in DOMAIN notifications' :
                     ~(/\ notifications'[i].event = "alert-created"
                       /\ notifications'[i].title = QualityTitle) ]_vars

\* C3's case: the session was evaluated twice in a row; the first evaluation created the
\* quality alert, the second found the score below the threshold again, and the alert
\* is still active and unacknowledged.
C3_Witness ==
    /\ evalLog.op = "evaluateSession"
    /\ evalLog.again
    /\ ~evalLog.createdQuality
    /\ HasUnacknowledged(activeAlerts, evalLog.sessionId, QualityTitle)

-----------------------------------------------------------------------------
(* The client reconnection machine                                         *)

\* C1: the reconnection attempt counter never exceeds MAX_RECONNECT_ATTEMPTS, and the
\* exhaustion of the attempts is recorded by at most one `failed` event.
C1_AttemptsNeverExceedMax ==
    /\ reconnectAttempts <= MAX_RECONNECT_ATTEMPTS
    /\ eventLog["maximum"] <= 1

-----------------------------------------------------------------------------
(* The scores of a session                                                 *)

\* A stored session to which no event was added after its creation.
HasNoEvents(s) == Len(s.events) = 1

\* C11: a session with zero events has quality score 100 and stability 100% under the
\* persisted-metrics formula (calculateQualityScore and updateStabilityMetrics applied
\* to a stored session that got no event since saveSession), and quality score 100
\* under the event-stream formula applied to an empty event list.
C11_NoEventsPerfectScore ==
    /\ \A sid \in DOMAIN sessions :
          HasNoEvents(sessions[sid])
            => /\ CalculateQualityScore(sessions[sid]) = 100
               /\ StabilityPercentage(sessions[sid]) = 100
    /\ DOMAIN sessions # {} => ConnectionQualityScore(NoEvents) = 100

\* The score the formula of the claim gives: 100 less the four penalties, as one
\* fraction num / den, clamped to 0..100 and then rounded.
FormulaScore(s) ==
    LET m == s.metrics
        dur == s.updatedAt - s.createdAt
        attempts == IF m.reconnectionCount > 0
                      THEN m.reconnectionCount + OrZero(m.failedReconnectionCount) ELSE 1
        count == IF m.latencySum # Undefined THEN m.latencyCount ELSE 1
        den == dur * attempts * 100 * count
        disconnectionPenalty == Min(5 * m.disconnectionCount, 30) * den
        \* min(0.4 * min(100 * tdt / dur, 100), 40)
        downtimePenalty == 40 * Min(m.totalDisconnectionTime, dur) * attempts * 100 * count
        \* (1 - reconnectionSuccessRate) * 20 once a reconnection succeeded
        reconnectionPenalty ==
            IF m.reconnectionCount > 0
              THEN 20 * (attempts - m.reconnectionCount) * dur * 100 * count ELSE 0
        \* min(averageLatency / 100, 10) when there is an average
        latencyPenalty ==
            IF m.latencySum # Undefined
              THEN Min(m.latencySum, 1000 * count) * dur * attempts ELSE 0
        num == 100 * den - disconnectionPenalty - downtimePenalty
                 - reconnectionPenalty - latencyPenalty
    IN  IF num <= 0 THEN 0
        ELSE IF num >= 100 * den THEN 100
        ELSE Round(num, den)

ScoredFirstExample ==
    LET m == scoring.session.metrics IN
    /\ m.disconnectionCount = 3 /\ m.totalDisconnectionTime = 0
    /\ m.reconnectionCount = 0 /\ m.latencySum = 0 /\ scoring.score = 85

-----------------------------------------------------------------------------
(* The historical metrics                                                  *)

\* C13: whenever a period's historical metrics are recomputed and a stored
\* averageQualityScore `old` exists for the period, the record written has a
\* changePercentage, equal to ((new - old) / old) * 100 rounded to one decimal, and
\* its trend is 'improving' iff changePercentage > 5, 'declining' iff
\* changePercentage < -5 and 'stable' otherwise; 80 and 88 give 10.0 and 'improving'.
C13_TrendFollowsChange ==
    [][ /\ ChangePercentage10(880, 800) = 100 /\ TrendOf(100) = "improving"
        /\ \A p \in PeriodSet :
              (p \in DOMAIN history /\ returned' # returned)
                => LET old == history[p].averageQualityScore10
                       new == history'[p].averageQualityScore10
                       change == history'[p].changePercentage10
                   IN  /\ history'[p].hasChange
                       /\ old # 0 => change = Round((new - old) * 1000, old)
                       /\ history'[p].trend = "improving" <=> change > 50
                       /\ history'[p].trend = "declining" <=> change < -50
                       /\ history'[p].trend = "stable" <=> (change >= -50 /\ change <= 50)
      ]_vars

\* C14: a status check that was started before another one, and that fails after that
\* later check found the process running and set the status to connected, leaves the
\* status connected and starts no reconnection attempt.
C14_LateFailureKeepsConnected ==
    [][ \A a \in PollAges :
          (/\ polls[a] = "stale"
           /\ lastKnownStatus = "connected"
           /\ PollDone(a, "error"))
            => /\ lastKnownStatus' = "connected"
               /\ reconnectAttempts' = reconnectAttempts
               /\ isReconnecting' = isReconnecting ]_vars

\* The executions of the body of tryReconnectToRecording that have started and not
\* yet returned.
AttemptsInFlight ==
    tasks["fetching"] + tasks["reconnected"] + tasks["dead"] + tasks["max"]

\* C15: at most one reconnection attempt is in flight at any time, whatever the order
\* of the timer's callbacks, the online events, the clicks on the reconnect button and
\* the calls of startRecordingStatusPolling.
C15_OneAttemptInFlight == AttemptsInFlight <= 1

\* The machine is in Failed: the exhaustion of the attempts is recorded for the process
\* and no attempt is running.
ReachedFailed == eventLog["maximum"] > 0 /\ ~isReconnecting

\* C16: once the machine is in Failed, a step starts a reconnection attempt or records
\* a `reconnecting` or `failed` event for the process only if it is the user's: a click
\* on the reconnect button or the start of a recording. The timer's callback and the
\* online handler start none.
C16_NoAutomaticRetryAfterFailed ==
    [][ (/\ ReachedFailed
         /\ \/ reconnectAttempts' > reconnectAttempts
            \/ eventLog'["reconnecting"] > eventLog["reconnecting"]
            \/ eventLog'["failed"] > eventLog["failed"]
            \/ eventLog'["maximum"] > eventLog["maximum"])
          => (ReconnectClick \/ StartRecording) ]_vars

\* C17: when a status check of the timer finds the process stopped, and the process
\* was confirmed as running before and not stopped by the user (the status is connected
\* and currentRecordingPid is still the process), the status becomes disconnected and
\* a `failed` event that says the process crashed is recorded.
C17_CrashDetected ==
    [][ \A a \in PollAges :
          (/\ lastKnownStatus = "connected"
           /\ currentRecordingPid
           /\ PollDone(a, "stopped"))
            => /\ lastKnownStatus' = "disconnected"
               /\ eventLog'["crashed"] = eventLog["crashed"] + 1 ]_vars

\* C18: startRecordingStatusPolling sets the status to connected and starts the timer
\* only if its initial status check reported the process as running.
C18_ConnectedOnlyWhenRunning ==
    [][ \A outcome \in StatusOutcomes :
          (/\ InitialCheckDone(outcome)
           /\ lastKnownStatus' = "connected" \/ pollingInterval')
            => outcome = "running" ]_vars

\* C19: a request that never completes does not starve the polling loop: whenever the
\* is-reconnecting flag is set it is eventually cleared, so that the timer's callback
\* performs status checks again.
C19_ReconnectingEventuallyCleared == isReconnecting ~> ~isReconnecting

\* C20: a failed status check only counts: the counter goes up by one (followed up to
\* MAX_ERROR_COUNT), the status changes only to Warning and exactly at the third
\* failure in a row, an attempt starts only at the fifth or a later one, and polling
\* and the process id are left alone; an answered check sets the counter to 0; and
\* nothing but a failed check raises the counter, shows Warning, or starts an attempt
\* while the user does nothing.
FailedPoll == \E a \in PollAges : PollDone(a, "error")

ExitedNormally(sid) ==
    /\ sid \in DOMAIN sessions
    /\ processOf[sid] \in ProcessIds
    /\ childProcess.state \in {"exiting", "exited"}
    /\ childProcess.code = 0

MarkedCompleted(sid) ==
    sid \in DOMAIN sessions /\ sessions[sid].metrics.completedNormally

C21_NormalExitCompletes ==
    \A sid \in SessionIds : ExitedNormally(sid) ~> MarkedCompleted(sid)

\* C28: while the child process of a started and registered recording runs,
\* isProcessRunning(processId) is true and the status endpoint reports status
\* 'recording' with isRunning = true.
C28_RunningProcessReported ==
    \A pid \in ProcessIds :
       (childProcess.state = "running" /\ processes[pid].registered)
         => /\ IsProcessRunning(processes, pid)
            /\ StatusOf(processes, pid).status = "recording"
            /\ StatusOf(processes, pid).isRunning

\* C29: a request to the process-id endpoint that is answered 200 appends exactly one
\* event to the session's log, of the requested type, and leaves the counters of the
\* other event types as they were.
C29_OneEventOfRequestedType ==
    [][ \A pid \in ProcessIds, in \in ControllerInputs, t1 \in Times, t2 \in Times :
          (/\ RecordConnectionEvent(pid, in.type, in.duration, t1, t2)
           /\ lastResult'.ret = "200")
            => LET before == sessions[lastResult'.arg]
                   after == sessions'[lastResult'.arg]
               IN  /\ Len(after.events) = Len(before.events) + 1
                   /\ after.events[Len(after.events)].type = in.type
                   /\ in.type # "disconnected" =>
                         after.metrics.disconnectionCount = before.metrics.disconnectionCount
                   /\ in.type \notin {"reconnected", "connected"} =>
                         after.metrics.reconnectionCount = before.metrics.reconnectionCount
                   /\ in.type # "failed" =>
                         after.metrics.failedReconnectionCount =
                            before.metrics.failedReconnectionCount ]_vars

\* C22: after every event that addConnectionEvent stores, whatever its type, the stored
\* stabilityPercentage is round(max(0, duration - totalDisconnectionTime) / duration * 100)
\* for the session's duration at that update (sessions of duration 0 aside).
C22_StabilityRecomputedOnEveryEvent ==
    [][ \A n \in CallNumbers, t \in Times :
          AddConnectionEventWrite(n, t)
            => LET s == sessions'[lastResult'.arg]
                   dur == s.updatedAt - s.createdAt
                   stableTime == Max(0, dur - s.metrics.totalDisconnectionTime)
               IN  dur > 0 =>
                     s.metrics.stabilityPercentage = Round(100 * stableTime, dur) ]_vars

\* C23: whenever the historical metrics of a period are written, the first time
\* included, sessionCount is the number of sessions created since the period's start,
\* and averageDisconnectionCount and averageQualityScore are the means over those
\* sessions, rounded to one decimal (the score where every such session has one).
SessionsOfPeriod(store, h) == {id \in DOMAIN store : store[id].createdAt >= h.startTime}

C23_HistoryIsMeanOverPeriod ==
    [][ \A n \in CallNumbers, t \in Times :
          (AddConnectionEventWrite(n, t) \/ CompleteSessionWrite(n, t))
            => \A p \in DOMAIN history' :
                 LET h == history'[p]
                     since == SessionsOfPeriod(sessions', h)
                     count == Cardinality(since)
                     sumD == SumOver(since, [id \in since |->
                                 sessions'[id].metrics.disconnectionCount])
                     sumQ == SumOver(since, [id \in since |->
                                 sessions'[id].metrics.qualityScore])
                 IN  /\ h.sessionCount = count
                     /\ h.averageDisconnectionCount10 = Round(10 * sumD, count)
                     /\ (\A id \in since : sessions'[id].metrics.qualityScore >= 0)
                           => h.averageQualityScore10 = Round(10 * sumQ, count) ]_vars

\* C24: for every current date the periods start at local midnight of the current day
\* ('day'), on day 0 of the current week ('week') and at midnight of day 1 of the
\* current month ('month').
C24_PeriodStartsOfCurrentDate ==
    periodCall.returned
      => LET d == periodCall.now.day IN
         /\ periodCall.starts["day"] = [day |-> d, ms |-> 0]
         /\ periodCall.starts["week"].day = d - GetDayOf(d)
         /\ periodCall.starts["month"] = [day |-> MonthStartDay(d), ms |-> 0]

\* C25: an evaluation creates a downtime alert for a session only when the downtime is
\* more than 20% of the session's duration and more than 10000 ms, and the alert is
\* critical exactly when the downtime is more than 40% of the duration.
DowntimeTitle == "Excessive Downtime"

C25_DowntimeAlertNeedsBothConditions ==
    [][ \A session \in ClientSessions, ts \in ClockReadings :
          EvaluateSession(session, ts)
            => \A i \in DOMAIN notifications' :
                 (notifications'[i].event = "alert-created"
                    /\ notifications'[i].title = DowntimeTitle)
                   => LET events == session.connectionEvents
                          down == TotalDowntime(events)
                          duration == events[Len(events)].timestamp - events[1].timestamp
                          alert == activeAlerts'[notifications'[i].id]
                      IN  /\ 100 * down > 20 * duration
                          /\ down > 10000
                          /\ alert.level = "critical" <=> 100 * down > 40 * duration ]_vars

\* C30: an evaluation pass removes and replaces no active alert: every alert that was
\* active is still there unchanged, and the active alerts grow by one entry for each
\* 'alert-created' notification of the pass.
CreatedCount(sent) ==
    Cardinality({i \in DOMAIN sent : sent[i].event = "alert-created"})

C30_CreateAlertNeverReplaces ==
    [][ \A session \in ClientSessions, ts \in ClockReadings :
          EvaluateSession(session, ts)
            => /\ \A k \in DOMAIN activeAlerts :
                     k \in DOMAIN activeAlerts' /\ activeAlerts'[k] = activeAlerts[k]
               /\ Cardinality(DOMAIN activeAlerts')
                     = Cardinality(DOMAIN activeAlerts) + CreatedCount(notifications') ]_vars

\* C26: for a time-ordered list of at least 3 sessions the trend compares the mean of
\* the first third with the mean of the last third: 'improving' iff the change is more
\* than +5%, 'declining' iff it is less than -5%, 'stable' otherwise; with a first-third
\* mean of 0, no change is 'stable' and a rise is 'improving'.
ThirdTotal(list, last) ==
    LET third == Len(list) \div 3
        from == IF last THEN Len(list) - third ELSE 0
    IN  SumSeq([i \in 1..third |-> list[from + i].value])

C26_TrendUsesFivePercentBand ==
    trendCall.returned
      => LET first == ThirdTotal(trendCall.sessions, FALSE)
             last == ThirdTotal(trendCall.sessions, TRUE)
             expected ==
                 IF first = 0 THEN (IF last > 0 THEN "improving" ELSE "stable")
                 ELSE IF 100 * (last - first) > 5 * first THEN "improving"
                 ELSE IF 100 * (last - first) < -5 * first THEN "declining"
                 ELSE "stable"
         IN  trendCall.trend = expected

\* C27: once handleMaxReconnectFailed has run for the process and has shown
\* 'disconnected', the answer of a status check that was still in flight never sets
\* the connection status back to 'connected'.
C27_FailedAbsorbsLateResponses ==
    [][ \A a \in PollAges, outcome \in StatusOutcomes :
          (/\ ReachedFailed
           /\ lastKnownStatus = "disconnected"
           /\ PollDone(a, outcome))
            => lastKnownStatus' # "connected" ]_vars
====
